---- MODULE Spec2Model ----
(***************************************************************************)
(* Model of the MAD plugin (src/plugins/mad-plugin.ts): the worktree       *)
(* lifecycle tools, the sentinel files they read and write, the git        *)
(* commands they issue and the status aggregation.                         *)
(*                                                                         *)
(* Names (branches, session names) are sequences of characters so that     *)
(* the '/' -> '-' replacement of mad_worktree_create is computed.          *)
(***************************************************************************)
EXTENDS Naturals, Sequences, FiniteSets, TLC

VARIABLES
    worktrees,   \* session name -> directory under <gitRoot>/worktrees and its .agent-* files
    branches,    \* local branches of the repository
    HEAD,        \* branch checked out in the integration repository (<<>> = detached)
    wtBranch,    \* session name -> branch checked out in its registered git worktree
    startPoint,  \* branch -> start point given to `git worktree add -b`
    gitignore,   \* .gitignore of the repository contains ".agent-"
    intCommits,  \* commits added to the integration branch
    merging,     \* the integration repository is in an unresolved merge
    cmds,        \* state-changing git commands issued by the last tool call
    last,        \* the last tool call: name, arguments, returned result
    prev,        \* the tool call before it, if it marked a worktree errored or done
    pre,         \* the addressed worktree and the repository before the last tool call
    report,      \* counters and rows returned by the last mad_status / mad_visualize
    scen,        \* progress through the blocked -> done monitoring scenario
    repoOk,      \* `git rev-parse --show-toplevel` succeeds in the plugin's directory
    logOk,       \* .mad-logs.jsonl can be appended to
    taskOk,      \* .agent-task can be written into a new worktree directory
    logged,      \* what became of the log appends of the last tool call
    wrote,       \* report files (.agent-review, .agent-security) written by the last tool call
    relation,    \* how the branch given to the last `git merge` stood to the integration branch
    registry,    \* session id -> capability record of the permission registry
    verdict,     \* the last intercepted action and the interceptor's decision
    glob,        \* the last question put to the glob matcher and its answer
    content,     \* the task file content returned by the last mad_read_task
    ran,         \* external commands run by the last mad_push_and_watch / mad_final_check
    updateNotificationShown,  \* module-level flag of line 19
    pendingUpdateMessage,     \* module-level message of line 20 is not null
    prefixed,    \* the response of the last tool call began with the update message
    notifications,  \* number of tool responses that began with the update message
    strays,      \* entries of <gitRoot>/worktrees that are not directories
    race         \* positions of the handlers that run concurrently on one worktree

vars == <<worktrees, branches, HEAD, wtBranch, startPoint, gitignore,
          intCommits, merging, cmds, last, prev, pre, report, scen,
          repoOk, logOk, taskOk, logged, wrote, relation, registry, verdict,
          glob, content, ran, updateNotificationShown, pendingUpdateMessage,
          prefixed, notifications, strays, race>>

----------------------------------------------------------------------------
(* Bounds *)

MaxCommits == 2

\* the count of prefixed responses stops here
MaxNotifications == 2

\* longest path, in segments, put to the glob matcher
MaxDepth == 3

----------------------------------------------------------------------------
(* Names *)

Main == <<"m">>
Dev == <<"d">>
Detached == <<>>
NoBranch == <<>>

FeatSlash == <<"f", "/", "a">>
FeatDash == <<"f", "-", "a">>
Other == <<"b">>

\* values of the `branch` argument of mad_worktree_create
BranchArgs == {FeatSlash, FeatDash, Other, <<>>}

\* values of the `task` argument of mad_worktree_create
TaskArgs == {"", "t"}

\* const sessionName = branch.replace(/\//g, "-")
SessionName(branch) ==
    [i \in DOMAIN branch |-> IF branch[i] = "/" THEN "-" ELSE branch[i]]

Sessions == {SessionName(b) : b \in BranchArgs \ {<<>>}}

AllBranches == {Main, Dev} \cup (BranchArgs \ {<<>>})

W1 == Other

----------------------------------------------------------------------------
(* Files of a worktree directory *)

NoTask == [present |-> FALSE, branch |-> NoBranch, base |-> NoBranch, text |-> ""]

NoDir == [exists |-> FALSE, task |-> NoTask,
          done |-> FALSE, blocked |-> FALSE, error |-> FALSE]

\* faulty variant: the directory is taken to be there
DirExistsAlways(w) == TRUE

\* existsSync(worktreePath)
DirExists(w) == w \in Sessions /\ worktrees[w].exists

\* the taskContent template of mad_worktree_create
TaskContent(branch, baseBranch, task) ==
    [present |-> TRUE, branch |-> branch, base |-> baseBranch, text |-> task]

\* what a tool call found: the addressed worktree directory and the repository
Snapshot(w) ==
    [wt |-> IF w \in Sessions THEN worktrees[w] ELSE NoDir,
     branches |-> branches, intCommits |-> intCommits, merging |-> merging]

NoReport == [active |-> FALSE, total |-> 0, done |-> 0, blocked |-> 0,
             errors |-> 0, wip |-> 0, rows |-> [w \in Sessions |-> "-"]]

Call(op, wt, branch, force, res) ==
    [op |-> op, wt |-> wt, branch |-> branch, force |-> force, res |-> res]

NoCall == Call("none", <<>>, <<>>, FALSE, "none")

GitCmd(cmd, branch, path, base) ==
    [cmd |-> cmd, branch |-> branch, path |-> path, base |-> base]

----------------------------------------------------------------------------
(* Git helpers *)

\* getCurrentBranch: `git symbolic-ref --short HEAD`, "main" when it fails
getCurrentBranch == IF HEAD # Detached THEN HEAD ELSE Main

\* `git rev-parse --verify <name>` succeeds
RevParseVerify(name) == name \in branches

\* a branch that is checked out (integration repository or a worktree) cannot
\* be checked out by a second `git worktree add`
CheckedOut(b) == b = HEAD \/ \E w \in Sessions : wtBranch[w] = b

----------------------------------------------------------------------------
(* The monitoring scenario: create W1, mad_blocked, mad_status, mad_done,   *)
(* mad_status, with no other call in between.                              *)

NoScen == [stage |-> 0, blocked |-> 0]

ScenNext(call, rep) ==
    IF call.op = "create" /\ call.res = "ok" /\ SessionName(call.branch) = W1
        THEN [stage |-> 1, blocked |-> 0]
    ELSE IF scen.stage = 1 /\ call.op = "blocked" /\ call.wt = W1 /\ call.res = "ok"
        THEN [stage |-> 2, blocked |-> 0]
    ELSE IF scen.stage = 2 /\ call.op = "status"
        THEN [stage |-> 3, blocked |-> rep.blocked]
    ELSE IF scen.stage = 3 /\ call.op = "done" /\ call.wt = W1 /\ call.res = "ok"
        THEN [stage |-> 4, blocked |-> scen.blocked]
    ELSE IF scen.stage = 4 /\ call.op = "status"
        THEN [stage |-> 5, blocked |-> scen.blocked]
    ELSE NoScen

\* the marking calls, which the sequencing properties look back at
Marking(call) ==
    IF (call.op = "test" /\ call.res = "failed") \/ (call.op = "done" /\ call.res = "ok")
        THEN [op |-> call.op, wt |-> call.wt]
        ELSE [op |-> "none", wt |-> <<>>]

\* faulty variant: the flag is not looked at
getUpdateNotificationAlways == pendingUpdateMessage

\* lines 124-130: TRUE when the pending message is returned, FALSE when ""
getUpdateNotification == pendingUpdateMessage /\ ~updateNotificationShown

\* a tool call that called getUpdateNotification (`asked`) and whose returned
\* text begins with what that call returned (`carried`)
Respond(asked, carried) ==
    /\ updateNotificationShown' = (updateNotificationShown \/ (asked /\ getUpdateNotification))
    /\ prefixed' = (carried /\ getUpdateNotification)
    /\ notifications' = IF carried /\ getUpdateNotification /\ notifications < MaxNotifications
                         THEN notifications + 1 ELSE notifications
    /\ UNCHANGED pendingUpdateMessage

\* what was called and returned, the git commands issued, the answer of git
\* to a merge, the report files written
Recorded(call, issued, rep, rel, files) ==
    /\ last' = call
    /\ prev' = Marking(last)
    /\ pre' = Snapshot(call.wt)
    /\ cmds' = issued
    /\ report' = rep
    /\ scen' = ScenNext(call, rep)
    /\ relation' = rel
    /\ wrote' = files
    /\ UNCHANGED <<repoOk, logOk, taskOk, registry, verdict, glob, strays, race>>

\* bookkeeping common to the tool calls: every returned text is
\* getUpdateNotification() + ..., an exception leaves before that call
Noted(call, issued, rep, rel, files) ==
    /\ Recorded(call, issued, rep, rel, files)
    /\ content' = NoTask
    /\ ran' = <<>>
    /\ Respond(call.res # "throw", call.res # "throw")

\* a tool call that does not call logEvent
Returned(call, issued, rep) ==
    /\ Noted(call, issued, rep, "none", <<>>)
    /\ logged' = "none"

----------------------------------------------------------------------------
(* Permission registry records *)

AgentSessions == {"s1", "s2"}

NoWorkspace == <<>>

\* `restricted` is FALSE when allowedPaths is the "unrestricted" sentinel
NoRecord == [registered |-> FALSE, canMutate |-> FALSE, restricted |-> FALSE,
             allowedPaths |-> {}, deniedPaths |-> {}, boundWorkspace |-> NoWorkspace]

\* no handler is under way step by step
\* (`hasError` and `doneSeen` are the locals of mad_test: a check failed, and
\* what its existsSync(doneFile) answered)
NoRace == [done |-> "idle", test |-> "idle", merge |-> "idle",
           hasError |-> FALSE, doneSeen |-> FALSE]

NoGlob == [path |-> <<>>, pattern |-> <<>>, result |-> FALSE]

\* `wasDenied`: the session has no record now, and the intercepted action
\* before this one was its own and was denied because its role was read-only;
\* `command` and `executed`:
\* a shell command as the agent issued it and as it is let through
NoVerdict == [session |-> "none", tool |-> "none", path |-> <<>>, decision |-> "none",
              wasDenied |-> FALSE, command |-> <<>>, executed |-> <<>>]

\* no tool was called yet, nothing is registered, the repository resolves
Untouched ==
    /\ repoOk = TRUE
    /\ logOk = TRUE
    /\ taskOk = TRUE
    /\ logged = "none"
    /\ wrote = <<>>
    /\ relation = "none"
    /\ registry = [s \in AgentSessions |-> NoRecord]
    /\ verdict = NoVerdict
    /\ glob = NoGlob
    /\ content = NoTask
    /\ ran = <<>>
    /\ updateNotificationShown = FALSE
    /\ pendingUpdateMessage = FALSE
    /\ prefixed = FALSE
    /\ notifications = 0
    /\ race = NoRace

----------------------------------------------------------------------------
(* Initial state: a repository without worktrees *)

Init ==
    /\ worktrees = [w \in Sessions |-> NoDir]
    /\ \/ branches = {Main, Dev} /\ HEAD \in {Dev, Detached}
       \/ branches = {Dev} /\ HEAD = Detached
    /\ wtBranch = [w \in Sessions |-> NoBranch]
    /\ startPoint = [b \in AllBranches |-> NoBranch]
    /\ gitignore = FALSE
    /\ intCommits = 0
    /\ merging = FALSE
    /\ cmds = <<>>
    /\ last = NoCall
    /\ prev = Marking(NoCall)
    /\ pre = Snapshot(<<>>)
    /\ report = NoReport
    /\ scen = NoScen
    /\ strays = {}
    /\ Untouched

----------------------------------------------------------------------------
(* logEvent *)

\* faulty variant: a failing append is not caught
LogEventThrows(appendOk) == IF appendOk THEN "appended" ELSE "thrown"

\* lines 72-88: the append to .mad-logs.jsonl sits in a try / catch that only
\* prints to the console, so logEvent returns normally whether or not the
\* line was appended
LogEvent(appendOk) == IF appendOk THEN "appended" ELSE "failed"

\* logEvent resolves the repository root itself (line 74), inside its try,
\* before it appends
AppendOk == repoOk /\ logOk

----------------------------------------------------------------------------
(* mad_worktree_create *)

\* lines 176-193: append the MAD entries to .gitignore and commit them
\* (the result of the commit command is not looked at)
GitignoreCmds ==
    IF gitignore THEN <<>> ELSE <<GitCmd("commit", NoBranch, <<>>, NoBranch)>>

GitignoreCommits ==
    IF ~gitignore /\ ~merging /\ intCommits < MaxCommits THEN intCommits + 1 ELSE intCommits

\* faulty variant: the new branch is always started from "main"
WorktreeCmdFromMain(branch, sessionName, baseBranch, branchExists) ==
    IF branchExists
        THEN GitCmd("worktree add", branch, sessionName, NoBranch)
        ELSE GitCmd("worktree add -b", branch, sessionName, Main)

\* lines 208-210
WorktreeCmd(branch, sessionName, baseBranch, branchExists) ==
    IF branchExists
        THEN GitCmd("worktree add", branch, sessionName, NoBranch)
        ELSE GitCmd("worktree add -b", branch, sessionName, baseBranch)

\* `git worktree add <path> <branch>` needs a branch that is not checked out;
\* `git worktree add -b <branch> <path> <base>` needs a new name and a base that resolves
WorktreeCmdOk(cmd) ==
    IF cmd.cmd = "worktree add"
        THEN cmd.branch \in branches /\ ~CheckedOut(cmd.branch)
        ELSE cmd.branch \notin branches /\ cmd.base \in branches

\* faulty variant: the directory that git made is still there
AfterFailedAddLeavesDir(path) ==
    [worktrees EXCEPT ![path] = [NoDir EXCEPT !.exists = TRUE]]

\* lines 212-220: the handler returns the error; a `git worktree add` that
\* fails leaves no directory at the path
AfterFailedAdd(path) == worktrees

\* faulty variant: the existence check is skipped
AlreadyExistsNever(sessionName) == FALSE

\* the existence check of lines 168-172
AlreadyExists(sessionName) == DirExists(sessionName)

\* the handler for one outcome of its log appends; every path calls logEvent
\* before it changes anything, and the catch of line 245 calls it again
MadWorktreeCreateLogging(appendOk) ==
    \E branch \in BranchArgs, task \in TaskArgs :
        LET baseBranch == getCurrentBranch
            taskWritten == taskOk
            sessionName == SessionName(branch)
            branchExists == RevParseVerify(branch)
            cmd == WorktreeCmd(branch, sessionName, baseBranch, branchExists)
            keep == UNCHANGED <<worktrees, branches, HEAD, wtBranch, startPoint,
                                gitignore, intCommits, merging>>
            Result(call, issued) == Noted(call, issued, NoReport, "none", <<>>)
        IN
        IF LogEvent(appendOk) = "thrown" THEN
            /\ keep
            /\ Result(Call("create", SessionName(branch), branch, FALSE, "throw"), <<>>)
        ELSE IF branch = <<>> THEN
            /\ keep
            /\ Result(Call("create", <<>>, branch, FALSE, "emptybranch"), <<>>)
        ELSE IF task = "" THEN
            /\ keep
            /\ Result(Call("create", sessionName, branch, FALSE, "emptytask"), <<>>)
        ELSE IF ~repoOk THEN
            /\ keep
            /\ Result(Call("create", sessionName, branch, FALSE, "unexpected"), <<>>)
        ELSE IF AlreadyExists(sessionName) THEN
            /\ keep
            /\ Result(Call("create", sessionName, branch, FALSE, "exists"), <<>>)
        ELSE IF ~WorktreeCmdOk(cmd) THEN
            /\ gitignore' = TRUE
            /\ intCommits' = GitignoreCommits
            /\ worktrees' = AfterFailedAdd(cmd.path)
            /\ UNCHANGED <<branches, HEAD, wtBranch, startPoint, merging>>
            /\ Result(Call("create", sessionName, branch, FALSE, "giterror"),
                      GitignoreCmds \o <<cmd>>)
        ELSE
            /\ gitignore' = TRUE
            /\ intCommits' = GitignoreCommits
            /\ branches' = branches \cup {cmd.branch}
            /\ startPoint' = IF cmd.cmd = "worktree add -b"
                             THEN [startPoint EXCEPT ![cmd.branch] = cmd.base]
                             ELSE startPoint
            /\ wtBranch' = [wtBranch EXCEPT ![cmd.path] = cmd.branch]
            /\ worktrees' = [worktrees EXCEPT ![cmd.path] =
                   [exists |-> TRUE,
                    task |-> IF taskWritten THEN TaskContent(branch, baseBranch, task)
                             ELSE NoTask,
                    done |-> FALSE, blocked |-> FALSE, error |-> FALSE]]
            /\ UNCHANGED <<HEAD, merging>>
            /\ Result(Call("create", sessionName, branch, FALSE, "ok"),
                      GitignoreCmds \o <<cmd>>)

MadWorktreeCreate ==
    /\ MadWorktreeCreateLogging(AppendOk)
    /\ logged' = LogEvent(AppendOk)

----------------------------------------------------------------------------
(* mad_status and mad_visualize *)

\* faulty variant: .agent-blocked is looked at before .agent-done
StatusTextBlockedFirst(wt) ==
    IF wt.blocked THEN "BLOCKED"
    ELSE IF wt.done THEN "DONE"
    ELSE IF wt.error THEN "ERROR"
    ELSE "IN PROGRESS"

\* the if / else-if chain over doneFile, blockedFile, errorFile
StatusText(wt) ==
    IF wt.done THEN "DONE"
    ELSE IF wt.blocked THEN "BLOCKED"
    ELSE IF wt.error THEN "ERROR"
    ELSE "IN PROGRESS"

\* names of files that can lie in the worktrees directory
StrayNames == {<<"n">>, <<"o">>}

\* readdirSync(worktreeDir): the worktree directories and the other entries
Listing == {w \in Sessions : worktrees[w].exists} \cup strays

\* faulty variant: every entry is taken for a worktree
IsDirectoryAlways(entry) == TRUE

\* statSync(wpath).isDirectory() of line 277
IsDirectory(entry) == entry \notin strays

\* the entries the loop does not skip
Entries == {entry \in Listing : IsDirectory(entry)}

\* what existsSync finds of the sentinel files under an entry: nothing under
\* an entry that is a file
Dir(entry) == IF entry \in Sessions THEN worktrees[entry] ELSE NoDir

\* the counter that the branch of the if / else-if chain with this text increments
Count(text) == Cardinality({entry \in Entries : StatusText(Dir(entry)) = text})

Dashboard ==
    IF Listing = {} THEN NoReport
    ELSE [active |-> TRUE,
          total |-> Cardinality(Entries),
          done |-> Count("DONE"),
          blocked |-> Count("BLOCKED"),
          errors |-> Count("ERROR"),
          wip |-> Count("IN PROGRESS"),
          rows |-> [w \in Sessions |->
                      IF w \in Entries THEN StatusText(worktrees[w]) ELSE "-"]]

Frame == UNCHANGED <<worktrees, branches, HEAD, wtBranch, startPoint,
                     gitignore, intCommits, merging>>

\* getGitRoot (lines 51-57) throws when the repository root does not resolve;
\* a handler that calls it outside a try lets the exception out to the caller
Thrown(op, w, force) ==
    /\ Frame
    /\ Returned(Call(op, w, <<>>, force, "throw"), <<>>, NoReport)

MadStatus ==
    IF ~repoOk THEN Thrown("status", <<>>, FALSE)
    ELSE
        /\ Frame
        /\ Returned(Call("status", <<>>, <<>>, FALSE, IF Listing = {} THEN "none" ELSE "ok"),
                    <<>>, Dashboard)

\* the whole handler sits in a try / catch (lines 589, 701)
MadVisualize ==
    IF ~repoOk THEN
        /\ Frame
        /\ Returned(Call("visualize", <<>>, <<>>, FALSE, "error"), <<>>, NoReport)
    ELSE
        /\ Frame
        /\ Returned(Call("visualize", <<>>, <<>>, FALSE, IF Listing = {} THEN "none" ELSE "ok"),
                    <<>>, Dashboard)

----------------------------------------------------------------------------
(* mad_test *)

\* faulty variant: .agent-done is left in place
MarkErroredKeepsDone(wt) == [wt EXCEPT !.error = TRUE]

\* faulty variant: .agent-done is removed but .agent-error is not written
MarkErroredOnlyRemovesDone(wt) == [wt EXCEPT !.done = FALSE]

\* lines 402-410: write .agent-error, remove .agent-done if it is there
MarkErrored(wt) == [wt EXCEPT !.error = TRUE, !.done = FALSE]

\* faulty variant: a passing run takes .agent-error away
AfterPassedClearsError(wt) == [wt EXCEPT !.error = FALSE]

\* lines 411-413: without a failed check the handler only adds a line to its
\* answer
AfterPassed(wt) == wt

\* outcome of the detected checks: one failed, all passed, none was run
TestOutcomes == {"fail", "pass", "nochecks"}

MadTest ==
    \E w \in Sessions, outcome \in TestOutcomes :
        IF ~repoOk THEN
            /\ outcome = "pass"
            /\ Thrown("test", w, FALSE)
        ELSE IF ~DirExists(w) THEN
            /\ outcome = "pass"
            /\ Frame
            /\ Returned(Call("test", w, <<>>, FALSE, "notfound"), <<>>, NoReport)
        ELSE IF outcome = "fail" THEN
            /\ worktrees' = [worktrees EXCEPT ![w] = MarkErrored(@)]
            /\ UNCHANGED <<branches, HEAD, wtBranch, startPoint, gitignore,
                           intCommits, merging>>
            /\ Returned(Call("test", w, <<>>, FALSE, "failed"), <<>>, NoReport)
        ELSE
            /\ worktrees' = [worktrees EXCEPT ![w] = AfterPassed(@)]
            /\ UNCHANGED <<branches, HEAD, wtBranch, startPoint, gitignore,
                           intCommits, merging>>
            /\ Returned(Call("test", w, <<>>, FALSE, "passed"), <<>>, NoReport)

----------------------------------------------------------------------------
(* mad_merge *)

\* outcome of `git merge --no-ff <branch> --no-edit` for a branch that resolves
MergeOutcomes == {"merged", "uptodate", "conflict", "failed"}

\* how the branch given to `git merge` stands to the integration branch:
\* nothing new on it, ahead of the integration branch, or both have new commits
Relations == {"uptodate", "descendant", "diverged"}

\* what `git merge` can answer for a branch that resolves
GitMerge(rel) ==
    IF rel = "uptodate" THEN {"uptodate", "failed"}
    ELSE IF rel = "descendant" THEN {"merged", "failed"}
    ELSE {"merged", "conflict", "failed"}

\* faulty variant: the merge is allowed to fast-forward
MergeCmdFastForward(branch) == GitCmd("merge", branch, <<>>, NoBranch)

\* line 443: git merge --no-ff ${branch} --no-edit
MergeCmd(branch) == GitCmd("merge --no-ff", branch, <<>>, NoBranch)

\* merge commits a merge that succeeds adds: a plain `git merge` of a
\* descendant only moves the integration branch forward
MergeCommits(cmd, rel) ==
    IF cmd.cmd = "merge --no-ff" \/ rel = "diverged" THEN 1 ELSE 0

\* line 433: const branch = args.worktree
MergeBranch(w) == w

\* faulty variant: the .agent-done check is skipped
MarkedDoneAlways(w) == TRUE

\* the guard of lines 439-441
MarkedDone(w) == worktrees[w].done

MadMerge ==
    \E w \in Sessions, rel \in Relations, outcome \in MergeOutcomes :
        LET branch == MergeBranch(w)
            cmd == MergeCmd(branch)
            Result(res, issued, r) ==
                /\ Noted(Call("merge", w, branch, FALSE, res), issued, NoReport, r, <<>>)
                /\ logged' = "none"
            unasked == rel = "uptodate" /\ outcome = "failed"
        IN
        IF ~repoOk THEN
            /\ unasked
            /\ Frame
            /\ Result("throw", <<>>, "none")
        ELSE IF ~DirExists(w) THEN
            /\ unasked
            /\ Frame
            /\ Result("notfound", <<>>, "none")
        ELSE IF ~MarkedDone(w) THEN
            /\ unasked
            /\ Frame
            /\ Result("notdone", <<>>, "none")
        ELSE IF ~RevParseVerify(branch) \/ merging \/ outcome = "failed" THEN
            /\ unasked
            /\ Frame
            /\ Result("failed", <<cmd>>, "none")
        ELSE IF outcome \notin GitMerge(rel) THEN
            FALSE
        ELSE IF outcome = "conflict" THEN
            /\ merging' = TRUE
            /\ UNCHANGED <<worktrees, branches, HEAD, wtBranch, startPoint,
                           gitignore, intCommits>>
            /\ Result("conflict", <<cmd>>, rel)
        ELSE IF outcome = "uptodate" THEN
            /\ Frame
            /\ Result("ok", <<cmd>>, rel)
        ELSE
            /\ intCommits < MaxCommits
            /\ intCommits' = intCommits + MergeCommits(cmd, rel)
            /\ UNCHANGED <<worktrees, branches, HEAD, wtBranch, startPoint,
                           gitignore, merging>>
            /\ Result("ok", <<cmd>>, rel)

----------------------------------------------------------------------------
(* mad_cleanup *)

\* faulty variant: force is not looked at
CleanupRefusedDespiteForce(w, force) == ~worktrees[w].done

\* the guard of lines 475-477
CleanupRefused(w, force) == ~force /\ ~worktrees[w].done

\* faulty variant: the branch stays checked out in the removed worktree
WorktreeRemoveKeepsBranch(w) == wtBranch

\* lines 480-481: `git worktree remove --force` and `git worktree prune` take
\* the worktree out of the repository's list; the branch itself is not deleted
WorktreeRemove(w) == [wtBranch EXCEPT ![w] = NoBranch]

MadCleanup ==
    \E w \in Sessions, force \in BOOLEAN, removed \in BOOLEAN :
        LET remove == GitCmd("worktree remove --force", NoBranch, w, NoBranch)
            prune == GitCmd("worktree prune", NoBranch, <<>>, NoBranch)
        IN
        IF ~repoOk THEN
            /\ removed
            /\ Thrown("cleanup", w, force)
        ELSE IF ~DirExists(w) THEN
            /\ removed
            /\ Frame
            /\ Returned(Call("cleanup", w, <<>>, force, "notfound"), <<>>, NoReport)
        ELSE IF CleanupRefused(w, force) THEN
            /\ removed
            /\ Frame
            /\ Returned(Call("cleanup", w, <<>>, force, "notdone"), <<>>, NoReport)
        ELSE IF ~removed THEN
            /\ Frame
            /\ Returned(Call("cleanup", w, <<>>, force, "cleanupfailed"), <<remove>>, NoReport)
        ELSE
            /\ worktrees' = [worktrees EXCEPT ![w] = NoDir]
            /\ wtBranch' = WorktreeRemove(w)
            /\ UNCHANGED <<branches, HEAD, startPoint, gitignore, intCommits, merging>>
            /\ Returned(Call("cleanup", w, <<>>, force, "ok"), <<remove, prune>>, NoReport)

----------------------------------------------------------------------------
(* mad_done and mad_blocked *)

\* faulty variant: the summary is echoed into .agent-task
MarkDoneOverwritesTask(wt) ==
    [wt EXCEPT !.done = TRUE, !.error = FALSE, !.blocked = FALSE,
               !.task = TaskContent(NoBranch, NoBranch, "summary")]

\* faulty variants: .agent-error is not removed; .agent-blocked is not removed;
\* .agent-done is not written
MarkDoneKeepsError(wt) == [wt EXCEPT !.done = TRUE, !.blocked = FALSE]

MarkDoneKeepsBlocked(wt) == [wt EXCEPT !.done = TRUE, !.error = FALSE]

MarkDoneOnlyRemoves(wt) == [wt EXCEPT !.error = FALSE, !.blocked = FALSE]

\* lines 507-509: echo > .agent-done, then rm -f .agent-error .agent-blocked
MarkDone(wt) == [wt EXCEPT !.done = TRUE, !.error = FALSE, !.blocked = FALSE]

\* faulty variant: the other sentinels are removed, as mad_done does
MarkBlockedClearsOthers(wt) == [wt EXCEPT !.blocked = TRUE, !.done = FALSE, !.error = FALSE]

\* line 533: echo > .agent-blocked
MarkBlocked(wt) == [wt EXCEPT !.blocked = TRUE]

MadDone ==
    \E w \in Sessions :
        IF ~repoOk THEN Thrown("done", w, FALSE)
        ELSE IF ~DirExists(w) THEN
            /\ Frame
            /\ Returned(Call("done", w, <<>>, FALSE, "notfound"), <<>>, NoReport)
        ELSE
            /\ worktrees' = [worktrees EXCEPT ![w] = MarkDone(@)]
            /\ UNCHANGED <<branches, HEAD, wtBranch, startPoint, gitignore,
                           intCommits, merging>>
            /\ Returned(Call("done", w, <<>>, FALSE, "ok"), <<>>, NoReport)

MadBlocked ==
    \E w \in Sessions :
        IF ~repoOk THEN Thrown("blocked", w, FALSE)
        ELSE IF ~DirExists(w) THEN
            /\ Frame
            /\ Returned(Call("blocked", w, <<>>, FALSE, "notfound"), <<>>, NoReport)
        ELSE
            /\ worktrees' = [worktrees EXCEPT ![w] = MarkBlocked(@)]
            /\ UNCHANGED <<branches, HEAD, wtBranch, startPoint, gitignore,
                           intCommits, merging>>
            /\ Returned(Call("blocked", w, <<>>, FALSE, "ok"), <<>>, NoReport)

----------------------------------------------------------------------------
(* mad_read_task and mad_log *)

\* readFileSync(taskFile, "utf-8")
ReadFile(task) == task

\* lines 548-557: the task file is looked for and read, nothing is written
MadReadTask ==
    \E w \in Sessions :
        IF ~repoOk THEN Thrown("read_task", w, FALSE)
        ELSE
            LET found == DirExists(w) /\ worktrees[w].task.present
            IN  /\ Frame
                /\ Recorded(Call("read_task", w, <<>>, FALSE,
                                 IF found THEN "ok" ELSE "notask"),
                            <<>>, NoReport, "none", <<>>)
                /\ content' = IF found THEN ReadFile(worktrees[w].task) ELSE NoTask
                /\ ran' = <<>>
                /\ logged' = "none"
                /\ Respond(TRUE, TRUE)

\* lines 571-577: the catch around logEvent answers "Failed to write log"
MadLogLogging(appendOk) ==
    /\ Frame
    /\ Noted(Call("log", <<>>, <<>>, FALSE,
                  IF LogEvent(appendOk) = "thrown" THEN "logfailed" ELSE "logged"),
             <<>>, NoReport, "none", <<>>)

MadLog ==
    /\ MadLogLogging(AppendOk)
    /\ logged' = LogEvent(AppendOk)

----------------------------------------------------------------------------
(* mad_review and mad_security_scan *)

ReportFile(name, w) == [file |-> name, wt |-> w]

Verdicts == {"approved", "changes_requested", "rejected"}

\* faulty variant: a rejected review marks the worktree as a failed test does
AfterReviewRejectedMarksError(wt, v) ==
    IF v = "rejected" THEN MarkErrored(wt) ELSE wt

\* line 1272: the only file the handler writes is .agent-review; the task
\* file and the sentinel files of the worktree stay as they are
AfterReview(wt, v) == wt

\* lines 1223-1277: the report goes to .agent-review of the worktree, then the
\* review is logged
MadReviewLogging(appendOk) ==
    \E w \in Sessions, v \in Verdicts :
        LET Result(res, files) ==
                Noted(Call("review", w, <<>>, FALSE, res), <<>>, NoReport, "none", files)
        IN
        IF ~repoOk THEN
            /\ v = "approved"
            /\ Frame
            /\ Result("throw", <<>>)
        ELSE IF ~DirExists(w) THEN
            /\ v = "approved"
            /\ Frame
            /\ Result("notfound", <<>>)
        ELSE
            /\ worktrees' = [worktrees EXCEPT ![w] = AfterReview(@, v)]
            /\ UNCHANGED <<branches, HEAD, wtBranch, startPoint, gitignore,
                           intCommits, merging>>
            /\ Result(IF LogEvent(appendOk) = "thrown" THEN "throw" ELSE v,
                      <<ReportFile(".agent-review", w)>>)

MadReview ==
    /\ MadReviewLogging(AppendOk)
    /\ logged' = IF repoOk /\ DirExists(last'.wt) THEN LogEvent(AppendOk) ELSE "none"

RiskLevels == {"low", "medium", "high", "critical"}

Severities == {"low", "medium", "high", "critical"}

\* the severities that occur in the `vulnerabilities` argument
VulnArgs == {{}, {"high"}, {"critical"}, {"low", "medium"}}

\* line 1338; vulns is the set of severities that occur in `vulnerabilities`
canMerge(riskLevel, vulns) ==
    riskLevel = "low" \/ (riskLevel = "medium" /\ vulns \cap {"critical", "high"} = {})

\* lines 1306-1355, for one report: it goes to .agent-security when the
\* target is an existing worktree, then the scan is logged
SecurityScan(target, riskLevel, vulns, appendOk) ==
    LET Result(res, files) ==
            Noted(Call("security_scan", target, <<>>, FALSE, res), <<>>, NoReport,
                  "none", files)
    IN
    IF ~repoOk THEN
        /\ Frame
        /\ Result("throw", <<>>)
    ELSE
        /\ Frame
        /\ Result(IF LogEvent(appendOk) = "thrown" THEN "throw"
                  ELSE IF canMerge(riskLevel, vulns) THEN "PASS" ELSE "FAIL",
                  IF target # Main /\ DirExists(target)
                      THEN <<ReportFile(".agent-security", target)>> ELSE <<>>)

MadSecurityScanLogging(appendOk) ==
    \E target \in Sessions \cup {Main}, riskLevel \in RiskLevels, vulns \in VulnArgs :
        SecurityScan(target, riskLevel, vulns, appendOk)

MadSecurityScan ==
    /\ MadSecurityScanLogging(AppendOk)
    /\ logged' = IF repoOk THEN LogEvent(AppendOk) ELSE "none"

----------------------------------------------------------------------------
(* mad_create_plan *)

\* lines 1187-1200: the plan is put into a local object, logged and echoed
MadCreatePlanLogging(appendOk) ==
    /\ Frame
    /\ Noted(Call("create_plan", <<>>, <<>>, FALSE,
                  IF LogEvent(appendOk) = "thrown" THEN "throw" ELSE "planned"),
             <<>>, NoReport, "none", <<>>)

MadCreatePlan ==
    /\ MadCreatePlanLogging(AppendOk)
    /\ logged' = LogEvent(AppendOk)

----------------------------------------------------------------------------
(* mad_final_check *)

\* a line of command output: `file:line: message`, or text without location
Located(file) == [file |-> file, located |-> TRUE]

PlainLine == [file |-> "", located |-> FALSE]

\* what `git diff <baseCommit>..HEAD --name-only` lists
ModifiedFiles == {"x.ts"}

\* what execSync does with a command: it returns stdout, or it throws an
\* error that carries stdout and stderr
ExecOk == [ok |-> TRUE, stdout |-> <<>>, stderr |-> <<>>]

ExecFailed(stdout, stderr) == [ok |-> FALSE, stdout |-> stdout, stderr |-> stderr]

\* the checks are run as `<command> 2>&1`: a failing tool's diagnostics
\* arrive on stdout; stderr holds what the shell itself had to say
ExecResults ==
    {ExecOk,
     ExecFailed(<<Located("x.ts")>>, <<>>),
     ExecFailed(<<>>, <<Located("x.ts")>>),
     ExecFailed(<<>>, <<Located("y.ts")>>),
     ExecFailed(<<>>, <<PlainLine>>)}

\* lines 30-45: on failure the output is "" and the error is stderr or, when
\* stderr is empty, the message of the exception ("Command failed: ...")
runCommand(exec) ==
    IF exec.ok
        THEN [success |-> TRUE, output |-> exec.stdout, error |-> <<>>]
        ELSE [success |-> FALSE, output |-> <<>>,
              error |-> IF exec.stderr # <<>> THEN exec.stderr ELSE <<PlainLine>>]

\* lines 923-946: one error for every line of the form file:line message
parseAndCategorize(text) ==
    {[file |-> text[i].file, isSessionError |-> text[i].file \in ModifiedFiles] :
        i \in {j \in DOMAIN text : text[j].located}}

\* the project found at the repository root: nothing, a Go module, or a
\* package.json (well-formed or not) with some of the scripts
Projects ==
    {[pkg |-> "none", scripts |-> {}, goMod |-> g] : g \in BOOLEAN} \cup
    {[pkg |-> "malformed", scripts |-> {}, goMod |-> FALSE]} \cup
    {[pkg |-> "ok", scripts |-> sc, goMod |-> FALSE] : sc \in SUBSET {"lint", "build"}}

\* lines 949-1008: the checks that are run for a project, in order
FinalChecks(project) ==
    (IF "lint" \in project.scripts THEN <<"npm run lint 2>&1">> ELSE <<>>) \o
    (IF "build" \in project.scripts THEN <<"npm run build 2>&1">> ELSE <<>>) \o
    (IF project.goMod THEN <<"go build ./... 2>&1", "go vet ./... 2>&1">> ELSE <<>>)

Ran(cmd, exec) == [cmd |-> cmd, exec |-> exec]

\* lines 1053-1111: the summary of the report
FinalVerdict(checksRun, allErrors) ==
    IF checksRun = 0 THEN "nochecks"
    ELSE IF allErrors = {} THEN "allpassed"
    ELSE IF \E e \in allErrors : e.isSessionError THEN "action_required"
    ELSE "session_successful"

\* lines 871-1118
MadFinalCheck ==
    \E project \in Projects :
        LET checks == FinalChecks(project)
            Result(res, run) ==
                /\ Frame
                /\ Recorded(Call("final_check", <<>>, <<>>, FALSE, res), <<>>, NoReport,
                            "none", <<>>)
                /\ content' = NoTask
                /\ ran' = run
                /\ logged' = LogEvent(AppendOk)
        IN
        IF ~repoOk THEN
            \* getGitRoot throws; the catch returns getUpdateNotification() + error
            /\ Result("error", <<>>)
            /\ Respond(TRUE, TRUE)
        ELSE IF project.pkg = "malformed" THEN
            \* JSON.parse throws after line 901 asked for the notification
            /\ Result("error", <<>>)
            /\ Respond(TRUE, FALSE)
        ELSE
            \E execs \in [DOMAIN checks -> ExecResults] :
                LET allErrors ==
                        UNION {parseAndCategorize(runCommand(execs[i]).error) :
                                   i \in {j \in DOMAIN checks : ~execs[j].ok}}
                IN  /\ Result(FinalVerdict(Len(checks), allErrors),
                              [i \in DOMAIN checks |-> Ran(checks[i], execs[i])])
                    /\ Respond(TRUE, TRUE)

----------------------------------------------------------------------------
(* mad_push_and_watch *)

\* a workflow run as `gh run list --json` prints it
Run(status, conclusion) == [status |-> status, conclusion |-> conclusion]

\* what `gh run list --limit 1 --json ...` prints: no run, one run, or
\* something that is not JSON
RunLists ==
    {<<>>, <<PlainLine>>,
     <<Run("completed", "success")>>, <<Run("completed", "failure")>>,
     <<Run("in_progress", "")>>, <<Run("queued", "")>>}

\* JSON.parse(runsResult.output) does not throw
Parses(output) == \A i \in DOMAIN output : "status" \in DOMAIN output[i]

\* faulty variant: a completed run is watched as well
CompletedNever(run) == FALSE

\* line 811
Completed(run) == run.status = "completed"

Exec(ok, stdout) == [ok |-> ok, stdout |-> stdout, stderr |-> <<>>]

\* lines 741-857
MadPushAndWatch ==
    \E hasRemote \in BOOLEAN, hasUpstream \in BOOLEAN, pushOk \in BOOLEAN,
       ghOk \in BOOLEAN, listOk \in BOOLEAN, runs \in RunLists, watchOk \in BOOLEAN :
        LET Result(res, run) ==
                /\ Frame
                /\ Recorded(Call("push_and_watch", <<>>, <<>>, FALSE, res), <<>>,
                            NoReport, "none", <<>>)
                /\ content' = NoTask
                /\ ran' = run
                /\ Respond(TRUE, TRUE)
            remote == <<Ran("git remote get-url origin", Exec(hasRemote, <<>>))>>
            push == <<Ran("git rev-parse --abbrev-ref @{upstream}", Exec(hasUpstream, <<>>)),
                      Ran(IF hasUpstream THEN "git push" ELSE "git push -u origin",
                          Exec(pushOk, <<>>))>>
            gh == <<Ran("gh --version", Exec(ghOk, <<>>))>>
            list == <<Ran("gh run list", Exec(listOk, IF listOk THEN runs ELSE <<>>))>>
            watch == <<Ran("gh run watch", Exec(watchOk, <<>>))>>
            logs == <<Ran("gh run view --log-failed", Exec(TRUE, <<>>))>>
            \* inputs that are not looked at on a path are fixed
            unused(flags) == \A f \in flags : f = TRUE
        IN
        IF ~repoOk THEN
            /\ unused({hasRemote, hasUpstream, pushOk, ghOk, listOk, watchOk}) /\ runs = <<>>
            /\ Result("error", <<>>)
            /\ logged' = LogEvent(AppendOk)
        ELSE
            /\ logged' = "none"
            /\ IF ~hasRemote THEN
                   /\ unused({hasUpstream, pushOk, ghOk, listOk, watchOk}) /\ runs = <<>>
                   /\ Result("noremote", remote)
               ELSE IF ~pushOk THEN
                   /\ unused({ghOk, listOk, watchOk}) /\ runs = <<>>
                   /\ Result("pushfailed", remote \o push)
               ELSE IF ~ghOk THEN
                   /\ unused({listOk, watchOk}) /\ runs = <<>>
                   /\ Result("nogh", remote \o push \o gh)
               ELSE IF ~listOk THEN
                   /\ unused({watchOk}) /\ runs = <<>>
                   /\ Result("noauth", remote \o push \o gh \o list)
               ELSE IF ~Parses(runs) THEN
                   /\ unused({watchOk})
                   /\ Result("noci", remote \o push \o gh \o list)
               ELSE IF runs = <<>> THEN
                   /\ unused({watchOk})
                   /\ Result("noruns", remote \o push \o gh \o list)
               ELSE IF Completed(runs[1]) THEN
                   /\ unused({watchOk})
                   /\ Result(IF runs[1].conclusion = "success"
                                 THEN "cipassed_already" ELSE "cifailed_already",
                             remote \o push \o gh \o list)
               ELSE IF watchOk THEN
                   Result("cipassed", remote \o push \o gh \o list \o watch)
               ELSE
                   Result("cifailed", remote \o push \o gh \o list \o watch \o logs)

----------------------------------------------------------------------------

Next ==
    \/ MadWorktreeCreate
    \/ MadStatus
    \/ MadVisualize
    \/ MadTest
    \/ MadMerge
    \/ MadCleanup
    \/ MadDone
    \/ MadBlocked

Spec == Init /\ [][Next]_vars

----------------------------------------------------------------------------
(* The tools that work on worktrees that exist already: the initial states  *)
(* are the repositories in which some of the sessions were created from      *)
(* "dev", with or without their task file.                                   *)

\* the branch a session was created for
BoundBranch(w) == IF w = FeatDash THEN FeatSlash ELSE w

Created(w, taskWritten) ==
    [exists |-> TRUE,
     task |-> IF taskWritten THEN TaskContent(BoundBranch(w), Dev, "t") ELSE NoTask,
     done |-> FALSE, blocked |-> FALSE, error |-> FALSE]

InitCreated ==
    /\ \E present \in SUBSET Sessions, tasked \in SUBSET Sessions :
          /\ tasked \subseteq present
          /\ worktrees = [w \in Sessions |->
                             IF w \in present THEN Created(w, w \in tasked) ELSE NoDir]
          /\ wtBranch = [w \in Sessions |->
                            IF w \in present THEN BoundBranch(w) ELSE NoBranch]
          /\ branches = {Main, Dev} \cup {BoundBranch(w) : w \in present}
          /\ startPoint = [b \in AllBranches |->
                              IF b \in {BoundBranch(w) : w \in present}
                                  THEN Dev ELSE NoBranch]
    /\ HEAD = Dev
    /\ gitignore = TRUE
    /\ intCommits = 0
    /\ merging = FALSE
    /\ cmds = <<>>
    /\ last = NoCall
    /\ prev = Marking(NoCall)
    /\ pre = Snapshot(<<>>)
    /\ report = NoReport
    /\ scen = NoScen
    /\ strays = {}
    /\ Untouched

NextTools ==
    \/ MadStatus
    \/ MadVisualize
    \/ MadTest
    \/ MadMerge
    \/ MadCleanup
    \/ MadDone
    \/ MadBlocked
    \/ MadReadTask
    \/ MadReview
    \/ MadSecurityScan

SpecTools == InitCreated /\ [][NextTools]_vars

----------------------------------------------------------------------------
(* The tools in an environment that can fail: the plugin may run outside a  *)
(* git repository, and the log file may or may not be writable at any call. *)

InitFaults ==
    /\ worktrees = [w \in Sessions |-> NoDir]
    /\ branches = {Main, Dev}
    /\ HEAD = Dev
    /\ wtBranch = [w \in Sessions |-> NoBranch]
    /\ startPoint = [b \in AllBranches |-> NoBranch]
    /\ gitignore = FALSE
    /\ intCommits = 0
    /\ merging = FALSE
    /\ cmds = <<>>
    /\ last = NoCall
    /\ prev = Marking(NoCall)
    /\ pre = Snapshot(<<>>)
    /\ report = NoReport
    /\ scen = NoScen
    /\ repoOk \in BOOLEAN
    /\ logOk \in BOOLEAN
    /\ taskOk \in BOOLEAN
    /\ logged = "none"
    /\ wrote = <<>>
    /\ relation = "none"
    /\ registry = [s \in AgentSessions |-> NoRecord]
    /\ verdict = NoVerdict
    /\ glob = NoGlob
    /\ content = NoTask
    /\ ran = <<>>
    /\ updateNotificationShown = FALSE
    /\ pendingUpdateMessage = FALSE
    /\ prefixed = FALSE
    /\ notifications = 0
    /\ strays = {}
    /\ race = NoRace

\* the log file becomes writable or unwritable between two tool calls
LogFileChanges ==
    /\ logOk' = ~logOk
    /\ UNCHANGED <<worktrees, branches, HEAD, wtBranch, startPoint, gitignore,
                   intCommits, merging, cmds, last, prev, pre, report, scen,
                   repoOk, taskOk, logged, wrote, relation, registry, verdict,
                   glob, content, ran, updateNotificationShown, pendingUpdateMessage,
                   prefixed, notifications, strays, race>>

\* the tools that call logEvent
NextLog ==
    \/ MadWorktreeCreate
    \/ MadLog
    \/ MadReview
    \/ MadSecurityScan
    \/ LogFileChanges

SpecLog == InitFaults /\ [][NextLog]_vars

\* the tools that run state-changing git commands
NextRepo ==
    \/ MadWorktreeCreate
    \/ MadDone
    \/ MadMerge
    \/ MadCleanup

SpecRepo == InitFaults /\ [][NextRepo]_vars

----------------------------------------------------------------------------
(* Creation and what later calls see of it: the repositories of Init, where  *)
(* the task file may or may not be writable.                                 *)

InitTask ==
    /\ worktrees = [w \in Sessions |-> NoDir]
    /\ \/ branches = {Main, Dev} /\ HEAD \in {Dev, Detached}
       \/ branches = {Dev} /\ HEAD = Detached
    /\ wtBranch = [w \in Sessions |-> NoBranch]
    /\ startPoint = [b \in AllBranches |-> NoBranch]
    /\ gitignore = FALSE
    /\ intCommits = 0
    /\ merging = FALSE
    /\ cmds = <<>>
    /\ last = NoCall
    /\ prev = Marking(NoCall)
    /\ pre = Snapshot(<<>>)
    /\ report = NoReport
    /\ scen = NoScen
    /\ repoOk = TRUE
    /\ logOk = TRUE
    /\ taskOk \in BOOLEAN
    /\ logged = "none"
    /\ wrote = <<>>
    /\ relation = "none"
    /\ registry = [s \in AgentSessions |-> NoRecord]
    /\ verdict = NoVerdict
    /\ glob = NoGlob
    /\ content = NoTask
    /\ ran = <<>>
    /\ updateNotificationShown = FALSE
    /\ pendingUpdateMessage = FALSE
    /\ prefixed = FALSE
    /\ notifications = 0
    /\ strays = {}
    /\ race = NoRace

NextTask ==
    \/ MadWorktreeCreate
    \/ MadStatus
    \/ MadReadTask
    \/ MadDone
    \/ MadMerge
    \/ MadCleanup

SpecTask == InitTask /\ [][NextTask]_vars

----------------------------------------------------------------------------
(* Testing and what the dashboard shows of it: worktrees that exist are     *)
(* marked done or blocked, tested and looked at.                            *)

NextTest ==
    \/ MadTest
    \/ MadStatus
    \/ MadDone
    \/ MadBlocked

SpecTest == InitCreated /\ [][NextTest]_vars

----------------------------------------------------------------------------
(* The status aggregation over every combination of sentinel files *)

SentinelStates ==
    {NoDir} \cup
    {[exists |-> TRUE, task |-> NoTask, done |-> d, blocked |-> b, error |-> e] :
        d \in BOOLEAN, b \in BOOLEAN, e \in BOOLEAN}

InitStatus ==
    /\ worktrees \in [Sessions -> SentinelStates]
    /\ branches = {Main, Dev}
    /\ HEAD = Dev
    /\ wtBranch = [w \in Sessions |-> NoBranch]
    /\ startPoint = [b \in AllBranches |-> NoBranch]
    /\ gitignore = TRUE
    /\ intCommits = 0
    /\ merging = FALSE
    /\ cmds = <<>>
    /\ last = NoCall
    /\ prev = Marking(NoCall)
    /\ pre = Snapshot(<<>>)
    /\ report = NoReport
    /\ scen = NoScen
    /\ strays \in SUBSET StrayNames
    /\ Untouched

NextStatus ==
    \/ MadStatus
    \/ MadVisualize

SpecStatus == InitStatus /\ [][NextStatus]_vars

----------------------------------------------------------------------------
(* The reporting tools and the merge: worktrees in every combination of      *)
(* sentinel files are reviewed, scanned, read, listed and merged.            *)

InitGates ==
    /\ worktrees \in [Sessions -> SentinelStates]
    /\ branches = {Main, Dev} \cup {w \in Sessions : worktrees[w].exists}
    /\ HEAD = Dev
    /\ wtBranch = [w \in Sessions |-> IF worktrees[w].exists THEN w ELSE NoBranch]
    /\ startPoint = [b \in AllBranches |->
                        IF b \in Sessions /\ worktrees[b].exists THEN Dev ELSE NoBranch]
    /\ gitignore = TRUE
    /\ intCommits = 0
    /\ merging = FALSE
    /\ cmds = <<>>
    /\ last = NoCall
    /\ prev = Marking(NoCall)
    /\ pre = Snapshot(<<>>)
    /\ report = NoReport
    /\ scen = NoScen
    /\ strays = {}
    /\ Untouched

NextGates ==
    \/ MadReview
    \/ MadSecurityScan
    \/ MadLog
    \/ MadCreatePlan
    \/ MadReadTask
    \/ MadStatus
    \/ MadVisualize
    \/ MadMerge

SpecGates == InitGates /\ [][NextGates]_vars

----------------------------------------------------------------------------
(* mad_done, mad_test and mad_merge called at the same time for the worktree *)
(* W1, each by its own process: a step is one file operation or one external *)
(* command of one handler, and the steps of the handlers interleave freely.  *)
(* `race` holds how far each handler has come.                               *)

\* what a step of these handlers never touches
RaceFrame == UNCHANGED <<branches, HEAD, wtBranch, startPoint, gitignore,
                         last, prev, pre, report, scen, repoOk, logOk, taskOk,
                         logged, wrote, relation, registry, verdict, glob,
                         content, ran, updateNotificationShown,
                         pendingUpdateMessage, prefixed, notifications, strays>>

RepoFrame == UNCHANGED <<intCommits, merging, cmds>>

\* line 503: existsSync(worktreePath), "Worktree not found" without it
DoneExistsSync ==
    /\ race.done = "idle"
    /\ race' = [race EXCEPT !.done = IF DirExists(W1) THEN "exists" ELSE "returned"]
    /\ UNCHANGED worktrees /\ RepoFrame /\ RaceFrame

\* line 507: echo ${summary} > .agent-done
DoneEcho ==
    /\ race.done = "exists"
    /\ worktrees' = [worktrees EXCEPT ![W1].done = TRUE]
    /\ race' = [race EXCEPT !.done = "written"]
    /\ RepoFrame /\ RaceFrame

\* line 509: rm -f unlinks its first operand, .agent-error
DoneRmError ==
    /\ race.done = "written"
    /\ worktrees' = [worktrees EXCEPT ![W1].error = FALSE]
    /\ race' = [race EXCEPT !.done = "error removed"]
    /\ RepoFrame /\ RaceFrame

\* lines 509-511: rm -f unlinks its second operand, .agent-blocked, and the
\* handler returns
DoneRmBlocked ==
    /\ race.done = "error removed"
    /\ worktrees' = [worktrees EXCEPT ![W1].blocked = FALSE]
    /\ race' = [race EXCEPT !.done = "returned"]
    /\ RepoFrame /\ RaceFrame

\* line 352: existsSync(worktreePath)
TestExistsSync ==
    /\ race.test = "idle"
    /\ race' = [race EXCEPT !.test = IF DirExists(W1) THEN "exists" ELSE "returned"]
    /\ UNCHANGED worktrees /\ RepoFrame /\ RaceFrame

\* lines 374-400: the checks run in the worktree; a passing run returns
\* after them (lines 411-415)
TestDoCheck ==
    /\ race.test = "exists"
    /\ \E hasError \in BOOLEAN :
          race' = [race EXCEPT !.hasError = hasError,
                               !.test = IF hasError THEN "checked" ELSE "returned"]
    /\ UNCHANGED worktrees /\ RepoFrame /\ RaceFrame

\* line 404: writeFileSync(.agent-error)
TestWriteError ==
    /\ race.test = "checked"
    /\ worktrees' = [worktrees EXCEPT ![W1].error = TRUE]
    /\ race' = [race EXCEPT !.test = "written"]
    /\ RepoFrame /\ RaceFrame

\* line 407: existsSync(doneFile)
TestDoneExistsSync ==
    /\ race.test = "written"
    /\ race' = [race EXCEPT !.doneSeen = worktrees[W1].done, !.test = "looked"]
    /\ UNCHANGED worktrees /\ RepoFrame /\ RaceFrame

\* lines 408-415: unlinkSync(doneFile) when it was seen, and the handler returns
TestUnlinkDone ==
    /\ race.test = "looked"
    /\ worktrees' = IF race.doneSeen THEN [worktrees EXCEPT ![W1].done = FALSE]
                                     ELSE worktrees
    /\ race' = [race EXCEPT !.test = "returned"]
    /\ RepoFrame /\ RaceFrame

\* line 435: existsSync(worktreePath)
MergeExistsSync ==
    /\ race.merge = "idle"
    /\ race' = [race EXCEPT !.merge = IF DirExists(W1) THEN "exists" ELSE "returned"]
    /\ UNCHANGED worktrees /\ RepoFrame /\ RaceFrame

\* lines 439-441: existsSync(doneFile), the refusal without it
MergeDoneExistsSync ==
    /\ race.merge = "exists"
    /\ race' = [race EXCEPT !.merge = IF MarkedDone(W1) THEN "checked" ELSE "returned"]
    /\ UNCHANGED worktrees /\ RepoFrame /\ RaceFrame

\* lines 443-452: runCommand(`git merge --no-ff ${branch} --no-edit`) and
\* the answer
MergeRunCommand ==
    /\ race.merge = "checked"
    /\ \E outcome \in {"merged", "conflict", "failed"} :
          /\ intCommits' = IF outcome = "merged" /\ intCommits < MaxCommits
                              THEN intCommits + 1 ELSE intCommits
          /\ merging' = (merging \/ outcome = "conflict")
    /\ cmds' = <<MergeCmd(MergeBranch(W1))>>
    /\ race' = [race EXCEPT !.merge = "returned"]
    /\ UNCHANGED worktrees /\ RaceFrame

\* the worktree W1 exists on its branch, with any of its sentinel files
InitRace ==
    /\ \E wt \in SentinelStates \ {NoDir} :
          worktrees = [w \in Sessions |-> IF w = W1 THEN wt ELSE NoDir]
    /\ branches = {Main, Dev, W1}
    /\ HEAD = Dev
    /\ wtBranch = [w \in Sessions |-> IF w = W1 THEN W1 ELSE NoBranch]
    /\ startPoint = [b \in AllBranches |-> IF b = W1 THEN Dev ELSE NoBranch]
    /\ gitignore = TRUE
    /\ intCommits = 0
    /\ merging = FALSE
    /\ cmds = <<>>
    /\ last = NoCall
    /\ prev = Marking(NoCall)
    /\ pre = Snapshot(<<>>)
    /\ report = NoReport
    /\ scen = NoScen
    /\ strays = {}
    /\ Untouched

NextRace ==
    \/ DoneExistsSync
    \/ DoneEcho
    \/ DoneRmError
    \/ DoneRmBlocked
    \/ TestExistsSync
    \/ TestDoCheck
    \/ TestWriteError
    \/ TestDoneExistsSync
    \/ TestUnlinkDone
    \/ MergeExistsSync
    \/ MergeDoneExistsSync
    \/ MergeRunCommand

SpecRace == InitRace /\ [][NextRace]_vars

----------------------------------------------------------------------------
(* The permission registry and the action interceptor.  The plugin under    *)
(* src/ registers the `event` hook only (lines 1359-1372) and has no        *)
(* registration tool; README.md and agents/orchestrator.md describe         *)
(* mad_register_agent and the enforcement.  The registry, the glob matcher  *)
(* and the authorization of file actions follow the specification.          *)

\* paths and patterns are sequences of segments, the separators taken out
Paths == {<<"backend", "server.js">>, <<"backend", "api", "x.js">>,
          <<"frontend", "app.js">>, <<"package.json">>}

\* values of the allowedPaths argument besides "unrestricted"
AllowedArgs == {{}, {<<"backend", "**">>}}

\* values of the deniedPaths argument
DeniedArgs == {{}, {<<"backend", "*">>, <<"package.json">>}}

Roles == {"implementer", "reviewer"}

FileTools == {"edit", "write", "patch"}

\* canMutate is derived from the role
CanMutate(role) == role = "implementer"

\* faulty variant: `*` spans separators as `**` does
RECURSIVE MatchesStarCrosses(_, _)
MatchesStarCrosses(path, pattern) ==
    IF pattern = <<>> THEN path = <<>>
    ELSE IF Head(pattern) \in {"*", "**"} THEN
        \/ MatchesStarCrosses(path, Tail(pattern))
        \/ path # <<>> /\ MatchesStarCrosses(Tail(path), pattern)
    ELSE
        /\ path # <<>>
        /\ Head(pattern) = Head(path)
        /\ MatchesStarCrosses(Tail(path), Tail(pattern))

\* `*` stands for one run of characters without separator, `**` for any
\* number of segments, anything else is literal; the match is anchored
RECURSIVE Matches(_, _)
Matches(path, pattern) ==
    IF pattern = <<>> THEN path = <<>>
    ELSE IF Head(pattern) = "**" THEN
        \/ Matches(path, Tail(pattern))
        \/ path # <<>> /\ Matches(Tail(path), pattern)
    ELSE
        /\ path # <<>>
        /\ Head(pattern) = "*" \/ Head(pattern) = Head(path)
        /\ Matches(Tail(path), Tail(pattern))

MatchesAny(path, patterns) == \E p \in patterns : Matches(path, p)

\* a run of characters between separators as a segment: `**`, or the one
\* character of a segment name or of `*`
Token(run) == IF run = <<"*", "*">> THEN "**" ELSE run[1]

\* the segments of a path or pattern given as characters; separators are
\* normalised: a leading, trailing or repeated "/" makes no segment
RECURSIVE Split(_, _)
Split(chars, run) ==
    LET closed == IF run = <<>> THEN <<>> ELSE <<Token(run)>>
    IN  IF chars = <<>> THEN closed
        ELSE IF Head(chars) = "/" THEN closed \o Split(Tail(chars), <<>>)
        ELSE Split(Tail(chars), Append(run, Head(chars)))

\* matches(path, pattern) of the Glob Matcher, on the characters
matches(path, pattern) == Matches(Split(path, <<>>), Split(pattern, <<>>))

\* faulty variant: the role is not looked at
ReadOnlyNever(rec) == FALSE

\* step 2: the record is of a read-only role
ReadOnly(rec) == ~rec.canMutate

\* faulty variant: a path inside allowedPaths is allowed before deniedPaths
\* is looked at
AuthorizeAllowedFirst(rec, path) ==
    IF ~rec.registered THEN "allow"
    ELSE IF ReadOnly(rec) THEN "deny: role is read-only"
    ELSE IF ~rec.restricted \/ MatchesAny(path, rec.allowedPaths) THEN "allow"
    ELSE IF MatchesAny(path, rec.deniedPaths) THEN "deny: path explicitly denied"
    ELSE IF rec.allowedPaths # {} THEN "deny: path outside ownership"
    ELSE "allow"

\* faulty variant: a session without record is refused
AuthorizeFailClosed(rec, path) ==
    IF ~rec.registered THEN "deny: unknown session"
    ELSE IF ReadOnly(rec) THEN "deny: role is read-only"
    ELSE IF MatchesAny(path, rec.deniedPaths) THEN "deny: path explicitly denied"
    ELSE IF rec.restricted /\ rec.allowedPaths # {} /\ ~MatchesAny(path, rec.allowedPaths)
        THEN "deny: path outside ownership"
    ELSE "allow"

\* faulty variant: allowedPaths is not looked at
AuthorizeNoOwnership(rec, path) ==
    IF ~rec.registered THEN "allow"
    ELSE IF ReadOnly(rec) THEN "deny: role is read-only"
    ELSE IF MatchesAny(path, rec.deniedPaths) THEN "deny: path explicitly denied"
    ELSE "allow"

\* the authorization of a mutating file action, steps 1 to 5
Authorize(rec, path) ==
    IF ~rec.registered THEN "allow"
    ELSE IF ReadOnly(rec) THEN "deny: role is read-only"
    ELSE IF MatchesAny(path, rec.deniedPaths) THEN "deny: path explicitly denied"
    ELSE IF rec.restricted /\ rec.allowedPaths # {} /\ ~MatchesAny(path, rec.allowedPaths)
        THEN "deny: path outside ownership"
    ELSE "allow"

ToolState == <<worktrees, branches, HEAD, wtBranch, startPoint, gitignore,
               intCommits, merging, cmds, last, prev, pre, report, scen,
               repoOk, logOk, taskOk, logged, wrote, relation,
               content, ran, updateNotificationShown, pendingUpdateMessage,
               prefixed, notifications, strays, race>>

\* register(sessionId, role, boundWorkspace?, allowedPaths?, deniedPaths?)
Register ==
    \E s \in AgentSessions, role \in Roles, bound \in {NoWorkspace, W1},
       unrestricted \in BOOLEAN, allowed \in AllowedArgs, denied \in DeniedArgs :
        /\ unrestricted => allowed = {}
        /\ registry' = [registry EXCEPT ![s] =
               [registered |-> TRUE, canMutate |-> CanMutate(role),
                restricted |-> ~unrestricted, allowedPaths |-> allowed,
                deniedPaths |-> denied, boundWorkspace |-> bound]]
        /\ UNCHANGED verdict
        /\ UNCHANGED <<ToolState, glob>>

\* unregister(sessionId)
Unregister ==
    \E s \in AgentSessions :
        /\ registry' = [registry EXCEPT ![s] = NoRecord]
        /\ UNCHANGED verdict
        /\ UNCHANGED <<ToolState, glob>>

\* the interceptor in front of edit, write and patch
FileAction ==
    \E s \in AgentSessions, tool \in FileTools, path \in Paths :
        /\ verdict' = [session |-> s, tool |-> tool, path |-> path,
                       decision |-> Authorize(registry[s], path),
                       wasDenied |-> /\ ~registry[s].registered
                                      /\ verdict.session = s
                                      /\ verdict.decision = "deny: role is read-only",
                       command |-> <<>>, executed |-> <<>>]
        /\ UNCHANGED registry
        /\ UNCHANGED <<ToolState, glob>>

\* shell commands, as words
ShellCommands == {<<"ls">>, <<"rm", "-rf", "x">>, <<"git", "commit">>}

\* the denylist: redirection, delete, move, copy, directory creation,
\* package installation, commit and push
Denylisted(cmd) ==
    \/ \E i \in DOMAIN cmd : cmd[i] \in {">", ">>", "rm", "mv", "cp", "mkdir"}
    \/ \E i \in 1..(Len(cmd) - 1) :
          <<cmd[i], cmd[i + 1]>> \in {<<"npm", "install">>, <<"git", "commit">>,
                                       <<"git", "push">>}

\* the authorization of a shell action: the denylist is for read-only
\* records; a session without record is let through
AuthorizeShell(rec, cmd) ==
    IF ~rec.registered THEN "allow"
    ELSE IF ReadOnly(rec) /\ Denylisted(cmd) THEN "deny: command mutates"
    ELSE "allow"

\* the root path of a workspace
RootPath(w) == <<"worktrees", w>>

\* faulty variant: the command is let through as it was issued
RewriteNever(rec, cmd) == cmd

\* a record with a boundWorkspace: change into its root path first
Rewrite(rec, cmd) ==
    IF rec.boundWorkspace # NoWorkspace
        THEN <<"cd", RootPath(rec.boundWorkspace), "&&">> \o cmd
        ELSE cmd

\* the interceptor in front of the shell tool
ShellAction ==
    \E s \in AgentSessions, cmd \in ShellCommands :
        LET decision == AuthorizeShell(registry[s], cmd)
        IN  /\ verdict' = [session |-> s, tool |-> "bash", path |-> <<>>,
                           decision |-> decision, wasDenied |-> FALSE,
                           command |-> cmd,
                           executed |-> IF decision = "allow"
                                        THEN Rewrite(registry[s], cmd) ELSE <<>>]
            /\ UNCHANGED registry
            /\ UNCHANGED <<ToolState, glob>>

NextAuth ==
    \/ Register
    \/ Unregister
    \/ FileAction
    \/ ShellAction

\* nothing is registered and no action was intercepted
InitAuth ==
    /\ worktrees = [w \in Sessions |-> NoDir]
    /\ branches = {Main, Dev}
    /\ HEAD = Dev
    /\ wtBranch = [w \in Sessions |-> NoBranch]
    /\ startPoint = [b \in AllBranches |-> NoBranch]
    /\ gitignore = FALSE
    /\ intCommits = 0
    /\ merging = FALSE
    /\ cmds = <<>>
    /\ last = NoCall
    /\ prev = Marking(NoCall)
    /\ pre = Snapshot(<<>>)
    /\ report = NoReport
    /\ scen = NoScen
    /\ strays = {}
    /\ Untouched

SpecAuth == InitAuth /\ [][NextAuth]_vars

----------------------------------------------------------------------------
(* The tools that close a session: the final check and the push *)

NextShip ==
    \/ MadFinalCheck
    \/ MadPushAndWatch

SpecShip == InitFaults /\ [][NextShip]_vars

----------------------------------------------------------------------------
(* The update notification.  updateNotificationShown and                     *)
(* pendingUpdateMessage are variables of the module, shared by every plugin   *)
(* instance; a plugin instance looks for an update when it is initialised.    *)

\* lines 110-119: hasUpdate is what checkForUpdates answered
PluginInit ==
    \E hasUpdate \in BOOLEAN :
        /\ pendingUpdateMessage' = (hasUpdate \/ pendingUpdateMessage)
        /\ UNCHANGED <<worktrees, branches, HEAD, wtBranch, startPoint, gitignore,
                       intCommits, merging, cmds, last, prev, pre, report, scen,
                       repoOk, logOk, taskOk, logged, wrote, relation, registry,
                       verdict, glob, content, ran, updateNotificationShown,
                       prefixed, notifications, strays, race>>

\* lines 714-735: mad_check_update asks npm again and reports; it does not
\* touch the pending message
MadCheckUpdate ==
    \E hasUpdate \in BOOLEAN :
        /\ Frame
        /\ Returned(Call("check_update", <<>>, <<>>, FALSE,
                         IF hasUpdate THEN "update" ELSE "uptodate"),
                    <<>>, NoReport)

NextUpdate ==
    \/ PluginInit
    \/ MadCheckUpdate
    \/ MadStatus
    \/ MadReadTask
    \/ MadLog
    \/ MadDone
    \/ MadFinalCheck

\* the module is loaded and no plugin instance is initialised yet; some
\* worktrees exist from an earlier run
SpecUpdate == InitCreated /\ [][NextUpdate]_vars

----------------------------------------------------------------------------
(* The glob matcher on its own: every path of up to MaxDepth segments over   *)
(* the segment names a, b, c, with and without leading separator.            *)

SegmentNames == {"a", "b", "c"}

\* segments joined by the separator
RECURSIVE Join(_)
Join(segments) ==
    IF Len(segments) = 0 THEN <<>>
    ELSE IF Len(segments) = 1 THEN <<Head(segments)>>
    ELSE <<Head(segments), "/">> \o Join(Tail(segments))

GlobPaths ==
    LET relative == {Join(q) : q \in UNION {[1..n -> SegmentNames] : n \in 1..MaxDepth}}
    IN  relative \cup {<<"/">> \o q : q \in relative}

GlobPatterns ==
    {<<"a", "/", "*", "*">>, <<"a", "/", "*">>, <<"/", "a", "/", "*", "*">>,
     <<"*", "*">>, <<"*">>, <<"a", "/", "b">>, <<"a", "/", "*", "/", "c">>,
     <<"*", "*", "/", "c">>}

GlobQuery ==
    \E path \in GlobPaths, pattern \in GlobPatterns :
        /\ glob' = [path |-> path, pattern |-> pattern, result |-> matches(path, pattern)]
        /\ UNCHANGED <<ToolState, registry, verdict>>

NextGlob == GlobQuery

SpecGlob == InitAuth /\ [][NextGlob]_vars

----------------------------------------------------------------------------
(* Properties *)

Addressed == worktrees[last.wt]

Terminal(wt) ==
    (IF wt.done THEN 1 ELSE 0) + (IF wt.blocked THEN 1 ELSE 0) + (IF wt.error THEN 1 ELSE 0)

\* C1: mad_merge on an existing worktree without .agent-done returns the
\* "not marked as done" refusal, issues no git command, and leaves the
\* integration branch as it was.
C1_MergeNeedsDone ==
    (last.op = "merge" /\ pre.wt.exists /\ ~pre.wt.done) =>
        /\ last.res = "notdone"
        /\ cmds = <<>>
        /\ intCommits = pre.intCommits
        /\ merging = pre.merging

\* a refused merge of a worktree whose branch could have been merged
C1_Witness ==
    /\ last.op = "merge" /\ last.res = "notdone"
    /\ pre.wt.exists /\ ~pre.wt.done /\ pre.wt.error
    /\ last.branch \in branches /\ ~merging /\ intCommits < MaxCommits

\* C2 (as stated): every worktree has at most one of .agent-done,
\* .agent-blocked, .agent-error.
C2_AtMostOneTerminal ==
    \A w \in Sessions : Terminal(worktrees[w]) <= 1

\* C2 (amended): .agent-done and .agent-error are never present together in a
\* worktree; .agent-blocked may accompany either of them.
C2_DoneExcludesError ==
    \A w \in Sessions : ~(worktrees[w].done /\ worktrees[w].error)

\* a worktree that was done, then failed its tests while blocked
C2_Witness ==
    /\ last.op = "test" /\ last.res = "failed"
    /\ pre.wt.done /\ pre.wt.blocked
    /\ Addressed.error /\ Addressed.blocked /\ ~Addressed.done

\* C3: right after a failing mad_test .agent-error is present and
\* .agent-done absent; right after a mad_done that follows it .agent-done is
\* present and .agent-error and .agent-blocked are absent.
C3_ErroredThenDone ==
    /\ (last.op = "test" /\ last.res = "failed") =>
           Addressed.error /\ ~Addressed.done
    /\ (last.op = "done" /\ last.res = "ok" /\ prev.op = "test" /\ prev.wt = last.wt) =>
           Addressed.done /\ ~Addressed.error /\ ~Addressed.blocked

\* mad_done right after a failing mad_test, on a worktree that was also blocked
C3_Witness ==
    /\ last.op = "done" /\ last.res = "ok"
    /\ prev.op = "test" /\ prev.wt = last.wt
    /\ pre.wt.error /\ pre.wt.blocked /\ ~pre.wt.done
    /\ Addressed.done

\* C4: a second mad_done in a row leaves the sentinels as the first one left
\* them: .agent-done present, .agent-error and .agent-blocked absent.
C4_DoneIdempotent ==
    (last.op = "done" /\ last.res = "ok" /\ prev.op = "done" /\ prev.wt = last.wt) =>
        /\ Addressed.done = pre.wt.done
        /\ Addressed.blocked = pre.wt.blocked
        /\ Addressed.error = pre.wt.error
        /\ Addressed.done /\ ~Addressed.error /\ ~Addressed.blocked

\* two mad_done calls in a row on the same worktree
C4_Witness ==
    /\ last.op = "done" /\ last.res = "ok"
    /\ prev.op = "done" /\ prev.wt = last.wt
    /\ pre.wt.done /\ Addressed.done

\* C5: mad_blocked on an existing worktree makes .agent-blocked present and
\* leaves the presence of .agent-error, .agent-done and .agent-task as it was.
C5_BlockedFrame ==
    (last.op = "blocked" /\ pre.wt.exists) =>
        /\ last.res = "ok"
        /\ Addressed.blocked
        /\ Addressed.error = pre.wt.error
        /\ Addressed.done = pre.wt.done
        /\ Addressed.task.present = pre.wt.task.present

\* mad_blocked on a worktree that was marked done and has its task file
C5_Witness ==
    /\ last.op = "blocked" /\ last.res = "ok"
    /\ pre.wt.done /\ ~pre.wt.blocked /\ pre.wt.task.present
    /\ Addressed.blocked

\* C6: the dashboard row of a worktree is DONE if .agent-done is present, else
\* BLOCKED if .agent-blocked is, else ERROR if .agent-error is, else IN PROGRESS.
C6_StatusPriority ==
    (last.op \in {"status", "visualize"}) =>
        \A w \in Sessions : worktrees[w].exists =>
            LET wt == worktrees[w]
                row == report.rows[w]
            IN  /\ wt.done => row = "DONE"
                /\ (~wt.done /\ wt.blocked) => row = "BLOCKED"
                /\ (~wt.done /\ ~wt.blocked /\ wt.error) => row = "ERROR"
                /\ (~wt.done /\ ~wt.blocked /\ ~wt.error) => row = "IN PROGRESS"

\* a status of a worktree holding .agent-done and .agent-blocked, next to an
\* errored one
C6_Witness ==
    /\ last.op = "status"
    /\ \E w, v \in Sessions :
          /\ worktrees[w].exists /\ worktrees[w].done /\ worktrees[w].blocked
          /\ report.rows[w] = "DONE"
          /\ worktrees[v].exists /\ ~worktrees[v].done /\ ~worktrees[v].blocked
          /\ worktrees[v].error /\ report.rows[v] = "ERROR"

\* C7: create W1, mad_blocked, mad_status: W1 is counted as BLOCKED; then
\* mad_done, mad_status: W1 is counted as DONE and the blocked counter is one
\* lower than in the first status.
C7_BlockedThenDone ==
    /\ scen.stage = 3 =>
           report.rows[W1] = "BLOCKED" /\ report.blocked >= 1
    /\ scen.stage = 5 =>
           /\ report.rows[W1] = "DONE"
           /\ report.done >= 1
           /\ report.blocked + 1 = scen.blocked

\* the scenario completed while another worktree stayed blocked
C7_Witness ==
    /\ scen.stage = 5
    /\ last.op = "status"
    /\ scen.blocked = 2 /\ report.blocked = 1

\* C8: mad_cleanup without force on an existing worktree without .agent-done
\* refuses, issues no git command and leaves the directory and its files;
\* with force it issues the worktree removal whatever the sentinels are.
C8_CleanupGuard ==
    /\ (last.op = "cleanup" /\ ~last.force /\ pre.wt.exists /\ ~pre.wt.done) =>
           /\ last.res = "notdone"
           /\ cmds = <<>>
           /\ Addressed = pre.wt
    /\ (last.op = "cleanup" /\ last.force /\ pre.wt.exists) =>
           /\ last.res \in {"ok", "cleanupfailed"}
           /\ Len(cmds) >= 1
           /\ cmds[1].cmd = "worktree remove --force"
           /\ cmds[1].path = last.wt
           /\ last.res = "ok" => ~Addressed.exists

\* a forced cleanup that removed a blocked, errored worktree
C8_Witness ==
    /\ last.op = "cleanup" /\ last.force /\ last.res = "ok"
    /\ pre.wt.exists /\ ~pre.wt.done /\ pre.wt.blocked /\ pre.wt.error
    /\ ~Addressed.exists

\* C9: mad_worktree_create for a name whose worktree directory exists fails,
\* issues no git command, makes no commit, creates no branch and leaves the
\* files of the existing worktree as they were.
C9_DuplicateCreate ==
    (last.op = "create" /\ pre.wt.exists) =>
        /\ last.res \in {"exists", "emptytask"}
        /\ cmds = <<>>
        /\ intCommits = pre.intCommits
        /\ branches = pre.branches
        /\ Addressed = pre.wt

\* feat/a is refused because the worktree of feat-a occupies the directory
C9_Witness ==
    /\ last.op = "create" /\ last.res = "exists"
    /\ last.branch = FeatSlash
    /\ pre.wt.exists /\ pre.wt.task.branch = FeatDash /\ pre.wt.done
    /\ FeatSlash \notin branches

\* C10 (as stated): a successful mad_worktree_create attaches an existing
\* branch without creating one, and otherwise creates the branch from the
\* branch that is checked out in the integration repository.
C10_BaseIsCheckedOutBranch ==
    (last.op = "create" /\ last.res = "ok") =>
        IF last.branch \in pre.branches
            THEN /\ branches = pre.branches
                 /\ wtBranch[last.wt] = last.branch
                 /\ cmds[Len(cmds)].cmd = "worktree add"
            ELSE /\ branches = pre.branches \cup {last.branch}
                 /\ wtBranch[last.wt] = last.branch
                 /\ startPoint[last.branch] = HEAD

\* C10 (amended): ... and otherwise creates the branch from the branch that is
\* checked out in the integration repository, or from "main" when no branch
\* is checked out there (detached HEAD).
C10_BaseIsCurrentOrMain ==
    (last.op = "create" /\ last.res = "ok") =>
        IF last.branch \in pre.branches
            THEN /\ branches = pre.branches
                 /\ wtBranch[last.wt] = last.branch
                 /\ cmds[Len(cmds)].cmd = "worktree add"
            ELSE /\ branches = pre.branches \cup {last.branch}
                 /\ wtBranch[last.wt] = last.branch
                 /\ (HEAD # Detached => startPoint[last.branch] = HEAD)
                 /\ (HEAD = Detached => startPoint[last.branch] = Main)

\* a branch created from the checked-out branch "dev" while "main" exists
C10_Witness ==
    /\ last.op = "create" /\ last.res = "ok"
    /\ last.branch \notin pre.branches
    /\ HEAD = Dev /\ Main \in branches
    /\ startPoint[last.branch] = Dev

\* C11: over mad_done, mad_blocked, mad_test, mad_merge, mad_review,
\* mad_security_scan, mad_status, mad_visualize and mad_read_task the content
\* of .agent-task of every worktree that exists before and after the call is
\* unchanged; a worktree without the file does not get one.
C11_TaskWrittenOnce ==
    [][\A w \in Sessions :
          (/\ worktrees[w].exists /\ worktrees'[w].exists
           /\ last'.op \in {"done", "blocked", "test", "merge", "review",
                            "security_scan", "status", "visualize", "read_task"})
          => worktrees'[w].task = worktrees[w].task]_vars

\* a security report written into a worktree that was marked done and blocked
\* and still has the task it was created with
C11_Witness ==
    /\ last.op = "security_scan" /\ last.wt \in Sessions
    /\ wrote = <<ReportFile(".agent-security", last.wt)>>
    /\ Addressed.done /\ Addressed.blocked
    /\ Addressed.task = TaskContent(BoundBranch(last.wt), Dev, "t")

\* C12: mad_worktree_create, mad_cleanup and mad_merge return a result and
\* throw no exception to the caller, also when the repository root cannot be
\* resolved.
C12_FailuresReturned ==
    (last.op \in {"create", "cleanup", "merge"}) => last.res # "throw"

\* C13: after mad_merge returned the conflict result, the integration
\* repository is not in an unresolved merge.
C13_ConflictAborted ==
    (last.op = "merge" /\ last.res = "conflict") => ~merging

C15_MergesBoundBranch ==
    (last.op = "merge" /\ cmds # <<>>) => cmds[1].branch = wtBranch[last.wt]

C17_LoggingBestEffort ==
    [][(logOk' = logOk /\ logged' \notin {"none", "appended"}) =>
          /\ last'.res \notin {"throw", "logfailed"}
          /\ \/ MadWorktreeCreateLogging(TRUE)
             \/ MadLogLogging(TRUE)
             \/ MadReviewLogging(TRUE)
             \/ MadSecurityScanLogging(TRUE)]_vars

\* a worktree created with its task file while the log could not be appended to
C17_Witness ==
    /\ logged = "failed" /\ repoOk
    /\ last.op = "create" /\ last.res = "ok"
    /\ Addressed.exists /\ Addressed.task.present
    /\ last.branch \in branches

\* C18: mad_done, mad_blocked, mad_test, mad_merge, mad_cleanup (with or
\* without force) and mad_review on a name without worktree directory return
\* "not found", not the "not marked as done" refusal, leave every worktree
\* directory and sentinel as it was, and issue no git command and write no file.
C18_NotFound ==
    [][(/\ last'.op \in {"done", "blocked", "test", "merge", "cleanup", "review"}
        /\ ~worktrees[last'.wt].exists)
       => /\ last'.res = "notfound"
          /\ worktrees' = worktrees
          /\ branches' = branches
          /\ intCommits' = intCommits /\ merging' = merging
          /\ cmds' = <<>>
          /\ wrote' = <<>>]_vars

\* a forced cleanup of a name without worktree, next to a worktree that a
\* cleanup without force would refuse as not done
C18_Witness ==
    /\ last.op = "cleanup" /\ last.force /\ last.res = "notfound"
    /\ ~Addressed.exists
    /\ \E v \in Sessions : worktrees[v].exists /\ ~worktrees[v].done

\* the step is an intercepted file action of session s
Intercepted(s) ==
    /\ registry' = registry
    /\ verdict'.session = s
    /\ verdict'.tool \in FileTools

\* C19: every edit, write or patch of a session registered with
\* canMutate = FALSE is denied, for every path and whatever its allowedPaths
\* and deniedPaths are.
C19_ReadOnlyDenied ==
    [][\A s \in AgentSessions :
          (Intercepted(s) /\ registry[s].registered /\ ~registry[s].canMutate)
          => verdict'.decision # "allow"]_vars

\* a reviewer whose allowedPaths are unrestricted and whose deniedPaths are
\* empty is denied a write
C19_Witness ==
    /\ verdict.tool = "write" /\ verdict.decision = "deny: role is read-only"
    /\ registry[verdict.session].registered /\ ~registry[verdict.session].canMutate
    /\ ~registry[verdict.session].restricted
    /\ registry[verdict.session].deniedPaths = {}

\* C20: for a registered session that can mutate, a file action on a path
\* that matches a pattern of its deniedPaths is denied, also when the path
\* matches a pattern of its allowedPaths or allowedPaths is unrestricted.
C20_DenyPrecedence ==
    [][\A s \in AgentSessions :
          (/\ Intercepted(s) /\ registry[s].registered /\ registry[s].canMutate
           /\ \E p \in registry[s].deniedPaths : Matches(verdict'.path, p))
          => verdict'.decision = "deny: path explicitly denied"]_vars

\* backend/server.js is denied by backend/* although backend/** allows it
C20_Witness ==
    /\ verdict.tool \in FileTools /\ verdict.decision = "deny: path explicitly denied"
    /\ verdict.path = <<"backend", "server.js">>
    /\ registry[verdict.session].canMutate /\ registry[verdict.session].restricted
    /\ Matches(verdict.path, <<"backend", "**">>)
    /\ <<"backend", "**">> \in registry[verdict.session].allowedPaths
    /\ <<"backend", "*">> \in registry[verdict.session].deniedPaths

\* C21: a file action of a registered session that can mutate and whose
\* allowedPaths is restricted and non-empty is denied on every path that
\* matches none of its patterns; with allowedPaths = {backend/**} and no
\* deniedPaths, frontend/app.js is denied and backend/server.js is allowed.
C21_OutsideOwnershipDenied ==
    [][\A s \in AgentSessions :
          (/\ Intercepted(s) /\ registry[s].registered /\ registry[s].canMutate
           /\ registry[s].restricted /\ registry[s].allowedPaths # {})
          => /\ ~MatchesAny(verdict'.path, registry[s].allowedPaths)
                  => verdict'.decision \notin {"allow", "none"}
             /\ (/\ registry[s].allowedPaths = {<<"backend", "**">>}
                 /\ registry[s].deniedPaths = {})
                  => /\ verdict'.path = <<"frontend", "app.js">>
                          => verdict'.decision = "deny: path outside ownership"
                     /\ verdict'.path = <<"backend", "server.js">>
                          => verdict'.decision = "allow"]_vars

\* the implementer that owns backend/** is denied a write to frontend/app.js
C21_Witness ==
    /\ verdict.tool = "write" /\ verdict.path = <<"frontend", "app.js">>
    /\ verdict.decision = "deny: path outside ownership"
    /\ registry[verdict.session].canMutate
    /\ registry[verdict.session].allowedPaths = {<<"backend", "**">>}
    /\ registry[verdict.session].deniedPaths = {}

\* C22: whatever registrations and unregistrations came before, a file action
\* of a session that has no capability record at that moment is allowed; a
\* read-only session that was denied is allowed again once it is unregistered.
C22_FailOpen ==
    [][\A s \in AgentSessions :
          (Intercepted(s) /\ ~registry[s].registered) => verdict'.decision = "allow"]_vars

\* a session is allowed, without record, the action after it was denied as
\* read-only: it was unregistered in between
C22_Witness ==
    /\ verdict.tool \in FileTools /\ verdict.decision = "allow"
    /\ verdict.wasDenied
    /\ registry[verdict.session] = NoRecord

\* the path without a leading separator
Canon(path) == IF path # <<>> /\ Head(path) = "/" THEN Tail(path) ELSE path

\* the path lies under the directory a
UnderA(path) == Len(Canon(path)) >= 3 /\ Canon(path)[1] = "a" /\ Canon(path)[2] = "/"

\* C23: the matcher is anchored and separator-aware.  "a/**" matches every
\* path under a, however deep, and only paths that begin with a; "a/*" matches
\* exactly the paths under a that have no further separator; so "a/b/c"
\* matches "a/**" and not "a/*", and "a/b" matches "a/*".
C23_GlobSeparatorAware ==
    LET p == Canon(glob.path)
        ABC == <<"a", "/", "b", "/", "c">>
        AB == <<"a", "/", "b">>
    IN  glob # NoGlob =>
          /\ glob.pattern = <<"a", "/", "*", "*">> =>
                /\ UnderA(glob.path) => glob.result
                /\ glob.result => p[1] = "a"
                /\ glob.path = ABC => glob.result
          /\ glob.pattern = <<"a", "/", "*">> =>
                /\ glob.result <=> (UnderA(glob.path) /\ \A i \in 3..Len(p) : p[i] # "/")
                /\ glob.path = ABC => ~glob.result
                /\ glob.path = AB => glob.result

\* "a/b/c" was put to "a/**" and matched
C23_Witness ==
    /\ glob.path = <<"a", "/", "b", "/", "c">>
    /\ glob.pattern = <<"a", "/", "*", "*">>
    /\ glob.result

\* the step is an intercepted shell action of session s
ShellIntercepted(s) ==
    /\ registry' = registry
    /\ verdict'.session = s
    /\ verdict'.tool = "bash"

\* C24: a shell action that the interceptor lets through is executed as
\* `cd <root path of the bound workspace> && <command>` when the session's
\* record has a boundWorkspace, and as it was issued when the record has none
\* or the session has no record.
C24_ShellRootedInWorkspace ==
    [][\A s \in AgentSessions :
          (ShellIntercepted(s) /\ verdict'.decision = "allow")
          => verdict'.executed =
                IF registry[s].boundWorkspace # NoWorkspace
                    THEN <<"cd", <<"worktrees", registry[s].boundWorkspace>>, "&&">>
                             \o verdict'.command
                    ELSE verdict'.command]_vars

\* an implementer bound to W1 runs `git commit` inside worktrees/W1
C24_Witness ==
    /\ verdict.tool = "bash" /\ verdict.decision = "allow"
    /\ registry[verdict.session].boundWorkspace = W1
    /\ verdict.command = <<"git", "commit">>
    /\ verdict.executed = <<"cd", <<"worktrees", W1>>, "&&", "git", "commit">>

\* C25: at most one tool response begins with the update message, however
\* many tools are called and plugin instances initialised, and none does
\* while no initialisation has found an update.
C25_NotifiedAtMostOnce ==
    /\ notifications <= 1
    /\ ~pendingUpdateMessage => (notifications = 0 /\ ~prefixed)
    /\ prefixed => notifications = 1

\* the message was delivered, and the response of a later mad_status came
\* without it
C25_Witness ==
    /\ notifications = 1 /\ ~prefixed
    /\ pendingUpdateMessage /\ updateNotificationShown
    /\ last.op = "status"

\* C26: a mad_security_scan whose report lists a vulnerability of severity
\* critical does not return the verdict PASS, whatever its riskLevel.
C26_CriticalNeverPasses ==
    [][\A target \in Sessions \cup {Main}, riskLevel \in RiskLevels, vulns \in VulnArgs :
          (/\ "critical" \in vulns
           /\ SecurityScan(target, riskLevel, vulns, AppendOk)
           /\ logged' = LogEvent(AppendOk))
          => last'.res # "PASS"]_vars

\* C27: a mad_final_check that reports "All checks passed! No errors
\* detected." ran only checks that succeeded.
C27_AllPassedMeansAllSucceeded ==
    (last.op = "final_check" /\ last.res = "allpassed")
        => \A i \in DOMAIN ran : ran[i].exec.ok

PushCommands == {"git push", "git push -u origin"}

\* C28: in every mad_push_and_watch, a push is attempted only after the
\* origin remote was found; CI runs are listed only after a push that
\* succeeded; a run is watched only after the list gave a latest run that is
\* not completed; and a failed push is the last command, reported as failure.
C28_PushThenWatch ==
    last.op = "push_and_watch" =>
        \A i \in DOMAIN ran :
            /\ ran[i].cmd \in PushCommands =>
                  \E j \in 1..(i - 1) :
                      ran[j].cmd = "git remote get-url origin" /\ ran[j].exec.ok
            /\ ran[i].cmd = "gh run list" =>
                  \E j \in 1..(i - 1) : ran[j].cmd \in PushCommands /\ ran[j].exec.ok
            /\ ran[i].cmd = "gh run watch" =>
                  \E j \in 1..(i - 1) :
                      /\ ran[j].cmd = "gh run list" /\ ran[j].exec.ok
                      /\ ran[j].exec.stdout # <<>>
                      /\ Parses(ran[j].exec.stdout)
                      /\ ran[j].exec.stdout[1].status # "completed"
            /\ (ran[i].cmd \in PushCommands /\ ~ran[i].exec.ok) =>
                  (i = Len(ran) /\ last.res = "pushfailed")

\* a run that was in progress after the push was watched until it failed
C28_Witness ==
    /\ last.op = "push_and_watch" /\ last.res = "cifailed"
    /\ \E i \in DOMAIN ran : ran[i].cmd = "gh run watch" /\ ~ran[i].exec.ok
    /\ \E i \in DOMAIN ran : ran[i].cmd = "gh run list"
                               /\ ran[i].exec.stdout = <<Run("in_progress", "")>>

\* C29: a mad_worktree_create whose `git worktree add` fails returns the
\* error and leaves no directory and no task file for the name; a name
\* without directory is reported as absent by mad_status ("-" or no active
\* worktrees), mad_read_task, mad_done and mad_merge; and a directory comes
\* into being only through a mad_worktree_create that reports success.
C29_FailedCreateLeavesNothing ==
    [][/\ (last'.op = "create" /\ last'.res = "giterror")
           => /\ worktrees' = worktrees
              /\ ~worktrees'[last'.wt].exists /\ ~worktrees'[last'.wt].task.present
              /\ branches' = branches /\ wtBranch' = wtBranch
       /\ \A w \in Sessions :
             /\ (~worktrees[w].exists /\ last'.wt = w) =>
                   /\ last'.op \in {"done", "merge"} => last'.res = "notfound"
                   /\ last'.op = "read_task" => (last'.res = "notask" /\ content' = NoTask)
             /\ (~worktrees[w].exists /\ last'.op = "status") => report'.rows[w] = "-"
             /\ (~worktrees[w].exists /\ worktrees'[w].exists) =>
                   (last'.op = "create" /\ last'.res = "ok" /\ last'.wt = w)]_vars

\* `git worktree add -b` failed because the base branch does not exist
C29_Witness ==
    /\ last.op = "create" /\ last.res = "giterror"
    /\ ~Addressed.exists
    /\ last.branch \notin branches
    /\ \E i \in DOMAIN cmds : cmds[i].cmd = "worktree add -b" /\ cmds[i].base \notin branches

\* C30: mad_read_task on a worktree that mad_worktree_create made returns the
\* content of its task file: the task text with the header naming the branch
\* it was created for and the base branch, for as long as the directory exists.
C30_TaskRoundTrip ==
    [][(last'.op = "read_task" /\ worktrees[last'.wt].exists)
       => /\ last'.res = "ok"
          /\ content' = TaskContent(wtBranch[last'.wt], getCurrentBranch, "t")]_vars

\* C31: a worktree that mad_cleanup has removed has no row in the next
\* mad_status, and when no worktree is left that mad_status answers that
\* there are no active worktrees; mad_cleanup leaves the branches of the
\* repository as they were, and a mad_worktree_create that follows it with a
\* task and a branch that exists for the removed worktree succeeds by
\* attaching that branch (`git worktree add <path> <branch>`, no -b).
C31_CleanupThenStatusThenCreate ==
    [][(last.op = "cleanup" /\ last.res = "ok") =>
          /\ ~worktrees[last.wt].exists
          /\ branches = pre.branches
          /\ last'.op = "status" =>
                /\ report'.rows[last.wt] = "-"
                /\ (\A w \in Sessions : ~worktrees[w].exists) =>
                      (last'.res = "none" /\ ~report'.active)
          /\ ( /\ last'.op = "create"
               /\ SessionName(last'.branch) = last.wt
               /\ last'.branch \in branches
               /\ last'.res # "emptytask" ) =>
                /\ last'.res = "ok"
                /\ worktrees'[last.wt].exists
                /\ wtBranch'[last.wt] = last'.branch
                /\ cmds'[Len(cmds')] =
                       GitCmd("worktree add", last'.branch, last.wt, NoBranch)]_vars

\* a removed worktree was created again on the branch it had left behind,
\* and the repository has no other worktree
C31_Witness ==
    /\ last.op = "create" /\ last.res = "ok"
    /\ cmds # <<>> /\ cmds[Len(cmds)].cmd = "worktree add"
    /\ pre.wt = NoDir
    /\ last.branch \in pre.branches
    /\ \A w \in Sessions \ {last.wt} : ~worktrees[w].exists

\* C32: in every mad_status dashboard the total is the number of worktree
\* directories and the sum of the four counters, each counter is the number
\* of rows with its status, every directory has exactly one row, and the
\* entries of worktrees/ that are not directories have no row and are in no
\* counter.
C32_StatusPartition ==
    LET dirs == {w \in Sessions : worktrees[w].exists}
        Rows(text) == Cardinality({w \in dirs : report.rows[w] = text})
    IN  (last.op = "status" /\ last.res = "ok") =>
          /\ report.total = Cardinality(dirs)
          /\ report.total = report.done + report.blocked + report.errors + report.wip
          /\ report.done = Rows("DONE")
          /\ report.blocked = Rows("BLOCKED")
          /\ report.errors = Rows("ERROR")
          /\ report.wip = Rows("IN PROGRESS")
          /\ \A w \in Sessions :
                report.rows[w] \in {"DONE", "BLOCKED", "ERROR", "IN PROGRESS"} <=> w \in dirs

\* a dashboard over two directories in different buckets and a file
C32_Witness ==
    /\ last.op = "status" /\ last.res = "ok"
    /\ strays # {}
    /\ report.total = 2
    /\ report.done = 1
    /\ report.errors = 1

\* C33: a mad_test that answers "All checks passed" (every check it ran
\* passed, or it found no project file and ran none) leaves every worktree
\* directory and its sentinel files as they were, and a mad_status that
\* follows it reports the tested worktree as before the test: a worktree
\* that had only .agent-error is still reported as ERROR.
C33_PassingTestFrame ==
    [][/\ (last'.op = "test" /\ last'.res = "passed") =>
             /\ worktrees' = worktrees
             /\ worktrees[last'.wt].exists
       /\ (last.op = "test" /\ last.res = "passed" /\ last'.op = "status") =>
             /\ report'.rows[last.wt] = StatusText(pre.wt)
             /\ (pre.wt.error /\ ~pre.wt.done /\ ~pre.wt.blocked) =>
                   report'.rows[last.wt] = "ERROR"]_vars

\* a worktree that a failing test had marked was tested again and passed
C33_Witness ==
    /\ last.op = "test" /\ last.res = "passed"
    /\ prev.op = "test" /\ prev.wt = last.wt
    /\ pre.wt.error /\ ~pre.wt.done /\ ~pre.wt.blocked
    /\ Addressed = pre.wt

\* C34 as claimed: the mad_status that follows a failing mad_test on an
\* existing worktree reports that worktree as ERROR.
C34_FailedTestShowsError ==
    [][(last.op = "test" /\ last.res = "failed" /\ last'.op = "status") =>
          report'.rows[last.wt] = "ERROR"]_vars

\* C34: the mad_status that follows a failing mad_test on an existing
\* worktree never reports that worktree as DONE or IN PROGRESS: it reports
\* BLOCKED when the worktree had .agent-blocked before the test, and ERROR
\* otherwise.
C34_FailedTestShowsErrorUnlessBlocked ==
    [][(last.op = "test" /\ last.res = "failed" /\ last'.op = "status") =>
          report'.rows[last.wt] = IF pre.wt.blocked THEN "BLOCKED" ELSE "ERROR"]_vars

\* the worktree whose test failed is shown as ERROR, next to a blocked one
C34_Witness ==
    /\ last.op = "status" /\ last.res = "ok"
    /\ prev.op = "test"
    /\ report.rows[prev.wt] = "ERROR"
    /\ report.done = 0
    /\ report.blocked = 1

\* C35: when a mad_done and a failing mad_test on the same worktree have
\* both returned, whatever the order of their file operations, exactly one
\* of .agent-done and .agent-error is there.
C35_RaceLeavesOneSentinel ==
    (race.done = "returned" /\ race.test = "returned" /\ race.hasError) =>
        (worktrees[W1].done # worktrees[W1].error)

\* C36: mad_merge runs its `git merge` only while .agent-done is there,
\* whatever a failing mad_test on the same worktree does in the meantime.
C36_MergeOnlyWhileDone ==
    [][(race.merge = "checked" /\ race'.merge = "returned") => worktrees[W1].done]_vars

GateTools == {"review", "security_scan", "log", "create_plan", "read_task",
              "status", "visualize"}

\* C37: mad_review, mad_security_scan, mad_log, mad_create_plan,
\* mad_read_task, mad_status and mad_visualize leave every worktree directory
\* with its task file and its sentinel files as they were, and a mad_merge
\* that follows a review or a security scan of a worktree accepts it (goes on
\* to `git merge`) exactly when the worktree was there and marked done before
\* the verdict was submitted, whatever the verdict.
C37_ReportsLeaveSentinels ==
    [][/\ last'.op \in GateTools => worktrees' = worktrees
       /\ ( /\ last.op \in {"review", "security_scan"}
            /\ last'.op = "merge"
            /\ last'.wt = last.wt ) =>
             /\ (last'.res \notin {"notfound", "notdone"}) <=> (pre.wt.exists /\ pre.wt.done)
             /\ (cmds' # <<>>) <=> (pre.wt.exists /\ pre.wt.done)]_vars

\* a rejected review was submitted for a worktree that is marked done
C37_Witness ==
    /\ last.op = "review" /\ last.res = "rejected"
    /\ wrote = <<ReportFile(".agent-review", last.wt)>>
    /\ Addressed.done
    /\ pre.wt = Addressed

\* C38: when a worktree was created for one branch, a mad_worktree_create
\* that follows it with a task and a different branch that has no worktree
\* succeeds too, in a directory of its own.
C38_DistinctBranchesDistinctWorktrees ==
    [][( /\ last.op = "create" /\ last.res = "ok"
         /\ last'.op = "create"
         /\ last'.branch \notin {<<>>, last.branch}
         /\ last'.res # "emptytask"
         /\ \A w \in Sessions : wtBranch[w] # last'.branch ) =>
          /\ last'.res = "ok"
          /\ last'.wt # last.wt
          /\ worktrees'[last.wt] = worktrees[last.wt]]_vars

====
